---- MODULE Spec2Model ----
(***************************************************************************)
(* State-machine model of the expense tracker: the Express/Mongoose REST   *)
(* API of backend/server.js (User and Expense collections, the register    *)
(* and login routes, authMiddleware and the three /api/expenses routes)    *)
(* and the React client (realApi, AuthScreen and App: its session, its     *)
(* calls and their continuations, its filters and its aggregation).        *)
(*                                                                         *)
(* Conventions.                                                            *)
(*  - A JSON object or a Mongo document is a function from field names to  *)
(*    values; an absent field is absent from the DOMAIN.                   *)
(*  - Time is counted in hours since the epoch (the same unit for          *)
(*    Date.now, a document's date and a token's exp); the calendar has     *)
(*    365-day years and local time is the epoch's.                         *)
(*  - A JavaScript number is a binary floating-point number with Precision *)
(*    significant bits, or NaN; amounts are counted in units of the        *)
(*    smallest step of the numbers in play.                                *)
(*  - A response that is never sent (a rejected promise inside an async    *)
(*    handler that has no try/catch) is the response NoResponse.           *)
(*  - The persistence layer is assumed available: a query only fails for   *)
(*    the reasons its arguments give it (cast or validation errors).       *)
(*  - A call of the client is sent, then served by the server (or failed   *)
(*    by the network), then settled: its continuation runs. A render that  *)
(*    throws unmounts App until the page is loaded again.                  *)
(***************************************************************************)
EXTENDS Integers, Sequences, FiniteSets, TLC

\* ---- bounds of the model ------------------------------------------------
MaxClock == 1    \* Date.now ranges over 0..MaxClock
MaxTx == 2       \* number of Expense documents ever inserted
MaxLen == 3      \* length of the lists the aggregation is given
Precision == 3   \* significant bits of a floating-point number
MaxInflight == 2 \* calls of the client awaiting their outcome at a time
MaxRegistering == 2 \* register requests between lookup and save at a time

\* ---- program constants --------------------------------------------------
ExpiresIn == 1                    \* expiresIn: '1h'
JWT_SECRET == "secret123"

\* ---- input alphabets ----------------------------------------------------
Emails == {"a@x.com", "b@x.com"}
Names == {"A"}
Passwords == {"p"}          \* the passwords users register with
WrongPasswords == {"q"}     \* a password nobody registered with
Salts == {"s1"}

VARIABLES
    User,       \* the users collection: a set of documents
    Expense,    \* the expenses collection: a set of documents
    nextId,     \* the next fresh ObjectId of an Expense document
    now,        \* Date.now()
    issued,     \* the tokens clients hold: for each user the one of its
                \* latest login
    req,        \* the last request received
    res,        \* the response it was given
    dbOps,      \* the collection operations the last request performed,
                \* each with the documents it resolved to
    registering,    \* the bodies of the register requests between their
                    \* lookup, which found no user, and their save
    inflight,       \* the client's calls awaiting their outcome, in the
                    \* order they were made
    event,          \* the last thing the client did
    appUser,        \* App: the user state (the signed-in user, or Null)
    tracker_user,   \* localStorage: the 'tracker_user' entry, or Null
    expenses,       \* App: the client's list of transactions
    loading,        \* App: the loading state
    timeRange,      \* App: the selected time range
    filterCategory, \* App: the selected category
    crashed         \* a render of App threw: React has unmounted it

server == <<User, Expense, nextId, issued, req, res, dbOps, registering>>

client == <<appUser, tracker_user, expenses, loading, timeRange, filterCategory, crashed>>

vars == <<User, Expense, nextId, now, issued, req, res, dbOps, registering,
          inflight, event, appUser, tracker_user, expenses, loading, timeRange,
          filterCategory, crashed>>

\* ---- JSON helpers -------------------------------------------------------
Has(obj, k) == k \in DOMAIN obj

Empty == [k \in {} |-> k]

\* { ...a, ...b }: the fields of b override those of a
Spread(a, b) ==
    [k \in DOMAIN a \cup DOMAIN b |-> IF k \in DOMAIN b THEN b[k] ELSE a[k]]

\* the one-field object { k: v }
Field(k, v) == [x \in {k} |-> v]

\* the ways to send field k: left out, or with a value of S
Opt(k, S) == {Empty} \cup {Field(k, v) : v \in S}

\* null
Null == [null |-> TRUE]

NoResponse == [status |-> 0, json |-> Empty]

Json(status, body) == [status |-> status, json |-> body]

\* a call of the client's api: what it sends, how far it got ("sent",
\* "served": the server has answered, "failed": the network has failed it)
\* and the response, once served
Call(call, header, body, id) ==
    [call |-> call, header |-> header, body |-> body, id |-> id,
     stage |-> "sent", res |-> NoResponse]

NoCall == Call("", [kind |-> "none"], Empty, "")

\* what the client did, and the call it did it for
Event(name, call) == [name |-> name, call |-> call]

\* one collection operation and the documents it resolved to
Db(op, docs) == [op |-> op, docs |-> docs]

\* ---- bcryptjs -----------------------------------------------------------
\* bcrypt.hash(s, 10) with the salt it generated: the salt is part of the
\* hash string, the plaintext is not recoverable from it (here: kept as a
\* suffix only so that compare can be computed).
BcryptHash(s, salt) == "$2a$10$" \o salt \o "$" \o s

\* bcrypt.compare(s, hash): re-hash s with the salt the hash carries
BcryptCompare(s, hash) == \E salt \in Salts : hash = BcryptHash(s, salt)

\* ---- jsonwebtoken -------------------------------------------------------
\* The value of the Authorization header: absent or '' (what the client
\* sends when it holds no session), a string that is no JWT, or a JWT
\* carrying the payload {id, exp} and a signature made with some key.
NoHeader == [kind |-> "none"]
Garbage == [kind |-> "garbage"]
Jwt(id, exp, key) == [kind |-> "jwt", id |-> id, exp |-> exp, key |-> key]

\* jwt.sign({ id }, JWT_SECRET, { expiresIn: '1h' })
JwtSign(id) == Jwt(id, now + ExpiresIn, JWT_SECRET)

\* jwt.verify with { ignoreExpiration: true }
JwtVerifiesIgnoringExp(token) ==
    /\ token.kind = "jwt"
    /\ token.key = JWT_SECRET

\* jwt.verify(token, JWT_SECRET) returns the payload; it throws on a string
\* that is no JWT, on a signature made with another key, and when the clock
\* has reached exp.
JwtVerifies(token) ==
    /\ token.kind = "jwt"
    /\ token.key = JWT_SECRET
    /\ now < token.exp

\* ---- the users collection -----------------------------------------------
\* userSchema: name, email and password are required strings (Mongoose's
\* required validator rejects an absent and an empty string).
UserValid(doc) ==
    \A k \in {"name", "email", "password"} : Has(doc, k) /\ doc[k] # ""

\* User.findOne({ email })
existingUser(email) == {u \in User : u.email = email}

\* password: password, the hashing forgotten
plainPassword(password, salt) == password

\* the password field of the saved document
hashedPassword(password, salt) == BcryptHash(password, salt)

\* new User({ name, email, password: hashedPassword }): the fields the body
\* lacks are undefined, hence absent from the document
newUser(body, hash) ==
    Spread([k \in DOMAIN body \cap {"name", "email"} |-> body[k]],
           [_id |-> Cardinality(User) + 1, password |-> hash])

RegisterBodies ==
    {Spread(Spread(Field("email", e), n), p) :
        e \in Emails, n \in Opt("name", Names \cup {""}), p \in Opt("password", Passwords)}

Request(route, body, header, id) ==
    [route |-> route, body |-> body, header |-> header, id |-> id]

\* app.post('/api/auth/register', ...)
RegisterRoute(body, salt) ==
        /\ req' = Request("POST /api/auth/register", body, NoHeader, "")
        /\ IF existingUser(body.email) # {}
           THEN /\ res' = Json(400, [error |-> "User already exists"])
                /\ dbOps' = <<Db("User.findOne", existingUser(body.email))>>
                /\ UNCHANGED User
           ELSE IF ~Has(body, "password")
           THEN \* bcrypt.hash(undefined, 10) rejects; caught
                /\ res' = Json(500, [error |-> "Illegal arguments: undefined, number"])
                /\ dbOps' = <<Db("User.findOne", {})>>
                /\ UNCHANGED User
           ELSE LET doc == newUser(body, hashedPassword(body.password, salt))
                IN  IF ~UserValid(doc)
                    THEN \* newUser.save() rejects; caught
                         /\ res' = Json(500, [error |-> "User validation failed"])
                         /\ dbOps' = <<Db("User.findOne", {}), Db("User.save", {})>>
                         /\ UNCHANGED User
                    ELSE /\ User' = User \cup {doc}
                         /\ res' = Json(201, [message |-> "User registered successfully"])
                         /\ dbOps' = <<Db("User.findOne", {}), Db("User.save", {doc})>>
        /\ UNCHANGED <<Expense, nextId, now, issued, registering, client>>

Register ==
    \E body \in RegisterBodies, salt \in Salts :
        RegisterRoute(body, salt) /\ UNCHANGED <<inflight, event>>

\* The register handler, step by step: the requests of several clients are
\* served concurrently, each handler running up to its next await.
\* The bodies the sign-up form sends
FormRegisterBodies ==
    {[name |-> n, email |-> e, password |-> p] :
        n \in Names, e \in Emails, p \in Passwords}

\* From the request to the answer of User.findOne: a user found is answered
\* 400 at once; else the handler goes on to hash the password.
RegisterFindOne ==
    \E body \in FormRegisterBodies :
        /\ dbOps' = <<Db("User.findOne", existingUser(body.email))>>
        /\ IF existingUser(body.email) # {}
           THEN /\ req' = Request("POST /api/auth/register", body, NoHeader, "")
                /\ res' = Json(400, [error |-> "User already exists"])
                /\ UNCHANGED registering
           ELSE /\ Len(registering) < MaxRegistering
                /\ registering' = Append(registering, body)
                /\ UNCHANGED <<req, res>>
        /\ UNCHANGED <<User, Expense, nextId, now, issued, inflight, event, client>>

\* email: { unique: true }: the unique index makes the insert fail with
\* E11000 when a document with that email is there
saveHitsUniqueIndex(doc) == existingUser(doc.email) # {}

\* From bcrypt.hash to the answer: newUser.save() inserts the document
\* unless the unique index on email refuses it, which the catch answers 500.
RegisterSave ==
    \E i \in DOMAIN registering, salt \in Salts :
        LET body == registering[i]
            doc == newUser(body, hashedPassword(body.password, salt))
        IN  /\ registering' = SubSeq(registering, 1, i - 1)
                                 \o SubSeq(registering, i + 1, Len(registering))
            /\ req' = Request("POST /api/auth/register", body, NoHeader, "")
            /\ IF saveHitsUniqueIndex(doc)
               THEN /\ res' = Json(500, [error |-> "E11000 duplicate key error"])
                    /\ dbOps' = <<Db("User.save", {})>>
                    /\ UNCHANGED User
               ELSE /\ User' = User \cup {doc}
                    /\ res' = Json(201, [message |-> "User registered successfully"])
                    /\ dbOps' = <<Db("User.save", {doc})>>
            /\ UNCHANGED <<Expense, nextId, now, issued, inflight, event, client>>

LoginBodies ==
    {Spread(Field("email", e), p) :
        e \in Emails, p \in Opt("password", Passwords \cup WrongPasswords)}

\* the token login answers with
loginToken(user) == JwtSign(user._id)

\* the public projection login answers with
loginUser(user) == [id |-> user._id, name |-> user.name, email |-> user.email]

\* app.post('/api/auth/login', ...)
LoginRoute(body) ==
        /\ req' = Request("POST /api/auth/login", body, NoHeader, "")
        /\ dbOps' = <<Db("User.findOne", existingUser(body.email))>>
        /\ IF existingUser(body.email) = {}
           THEN /\ res' = Json(400, [error |-> "User not found"])
                /\ UNCHANGED issued
           ELSE LET user == CHOOSE u \in existingUser(body.email) : TRUE
                IN  IF ~Has(body, "password")
                    THEN \* bcrypt.compare(undefined, hash) rejects; caught
                         /\ res' = Json(500, [error |-> "Illegal arguments: undefined, string"])
                         /\ UNCHANGED issued
                    ELSE IF ~BcryptCompare(body.password, user.password)
                    THEN /\ res' = Json(400, [error |-> "Invalid credentials"])
                         /\ UNCHANGED issued
                    ELSE /\ issued' = {t \in issued : t.id # user._id}
                                        \cup {loginToken(user)}
                         /\ res' = Json(200, [token |-> loginToken(user),
                                              user |-> loginUser(user)])
        /\ UNCHANGED <<User, Expense, nextId, now, registering, client>>

Login ==
    \E body \in LoginBodies :
        LoginRoute(body) /\ UNCHANGED <<inflight, event>>

\* ---- the protected routes ------------------------------------------------
\* What a client can put in the Authorization header: nothing, a string
\* that is no JWT, a token it holds, or a JWT for the id of the first user
\* signed with a key that is not the server's.
Headers ==
    {NoHeader, Garbage} \cup issued
        \cup {Jwt(u._id, now + ExpiresIn, "not-the-secret") : u \in {v \in User : v._id = 1}}

\* the middleware, were it to answer 401 to every request it refuses
authMiddlewareAll401(header) ==
    IF header.kind = "none"
    THEN [next |-> FALSE, res |-> Json(401, [error |-> "Access Denied"]), user |-> Empty]
    ELSE IF JwtVerifies(header)
    THEN [next |-> TRUE, res |-> NoResponse, user |-> [id |-> header.id, exp |-> header.exp]]
    ELSE [next |-> FALSE, res |-> Json(401, [error |-> "Invalid Token"]), user |-> Empty]

\* const authMiddleware = (req, res, next) => ...: either calls next() with
\* req.user set to the verified payload, or answers itself.
authMiddleware(header) ==
    IF header.kind = "none"
    THEN [next |-> FALSE, res |-> Json(401, [error |-> "Access Denied"]), user |-> Empty]
    ELSE IF JwtVerifies(header)
    THEN [next |-> TRUE, res |-> NoResponse, user |-> [id |-> header.id, exp |-> header.exp]]
    ELSE [next |-> FALSE, res |-> Json(400, [error |-> "Invalid Token"]), user |-> Empty]

\* What an async handler without try/catch leaves behind when a promise it
\* awaits rejects: Express 4 never answers (and Node may end the process on
\* the unhandled rejection), Express 5 forwards to the default error
\* handler, which answers 500.
Unhandled(message) == {NoResponse, Json(500, [error |-> message])}

\* Expense.find({}): the filter on the owner forgotten
findAll(userId) == Expense

\* Expense.find({ userId })
find(userId) == {e \in Expense : e.userId = userId}

\* .sort({ date: -1 }): every order of the documents with dates descending
\* (the order of documents with equal dates is not determined)
Orders(S) ==
    {s \in [1..Cardinality(S) -> S] : \A i, j \in DOMAIN s : i # j => s[i] # s[j]}

\* .sort({ date: 1 })
sortDateAsc(S) ==
    {s \in Orders(S) : \A i, j \in DOMAIN s : i < j => s[i].date <= s[j].date}

sortDateDesc(S) ==
    {s \in Orders(S) : \A i, j \in DOMAIN s : i < j => s[i].date >= s[j].date}

\* app.get('/api/expenses', authMiddleware, ...)
GetRoute(header) ==
        LET auth == authMiddleware(header)
        IN  /\ req' = Request("GET /api/expenses", Empty, header, "")
            /\ IF ~auth.next
               THEN /\ res' = auth.res
                    /\ dbOps' = <<>>
               ELSE /\ \E sorted \in sortDateDesc(find(auth.user.id)) :
                           res' = Json(200, sorted)
                    /\ dbOps' = <<Db("Expense.find", find(auth.user.id))>>
            /\ UNCHANGED <<User, Expense, nextId, now, issued, registering, client>>

GetExpenses ==
    \E header \in Headers :
        GetRoute(header) /\ UNCHANGED <<inflight, event>>

\* Mongoose's cast of a JSON value to Number: the JSON texts that denote a
\* number, and the number each denotes
NumberOf == ("5" :> 5) @@ ("7" :> 7)

IsNumeric(text) == text \in DOMAIN NumberOf

\* the paths expenseSchema declares
SchemaPaths == {"userId", "title", "amount", "type", "category", "date"}

\* The request bodies of POST /api/expenses, over the paths of the schema.
\* type and category are opaque to the server and always sent the same.
\* What the client sends, { title, amount, type, category }:
FormBody == [title |-> "Coffee", amount |-> "5", type |-> "expense", category |-> "Food"]

\* ... to which a caller of the API may add an owner and a date of its own
ExpenseBodies ==
    {Spread(Spread(FormBody, u), d) :
        u \in Opt("userId", {1, 2}), d \in Opt("date", {0})}

\* ... and from which it may leave out the title or the amount, or send an
\* amount that is no number
LooseBodies ==
    {Spread(Spread([type |-> "expense", category |-> "Food"], t), a) :
        t \in Opt("title", {"Coffee"}), a \in Opt("amount", {"5", "abc"})}

\* { userId: req.user.id, ...req.body }: the body spread last
bodySpreadLast(body, user) == Spread([userId |-> user.id], body)

\* the object handed to the constructor
newExpenseFields(body, user) == Spread(body, [userId |-> user.id])

\* new Expense(obj): a fresh _id, the schema's paths of obj cast to their
\* types, and the default of date
newExpense(obj) ==
    [k \in (DOMAIN obj \cap SchemaPaths) \cup {"_id", "date"} |->
        CASE k = "_id" -> nextId
          [] k = "date" -> IF Has(obj, "date") THEN obj.date ELSE now
          [] k = "amount" -> IF IsNumeric(obj.amount) THEN NumberOf[obj.amount] ELSE 0
          [] OTHER -> obj[k]]

\* what makes newExpense.save() reject: a path that could not be cast, or
\* a required path that is absent
saveRejects(obj) ==
    \/ Has(obj, "amount") /\ ~IsNumeric(obj.amount)
    \/ ~Has(obj, "userId")

\* app.post('/api/expenses', authMiddleware, ...)
PostRoute(header, body) ==
        LET auth == authMiddleware(header)
            obj == newExpenseFields(body, auth.user)
        IN  /\ req' = Request("POST /api/expenses", body, header, "")
            /\ IF ~auth.next
               THEN /\ res' = auth.res
                    /\ dbOps' = <<>>
                    /\ UNCHANGED <<Expense, nextId>>
               ELSE IF saveRejects(obj)
               THEN /\ res' \in Unhandled("Expense validation failed")
                    /\ dbOps' = <<Db("Expense.save", {})>>
                    /\ UNCHANGED <<Expense, nextId>>
               ELSE /\ nextId <= MaxTx
                    /\ Expense' = Expense \cup {newExpense(obj)}
                    /\ nextId' = nextId + 1
                    /\ res' = Json(200, newExpense(obj))
                    /\ dbOps' = <<Db("Expense.save", {newExpense(obj)})>>
            /\ UNCHANGED <<User, now, issued, registering, client>>

\* ... for the bodies of Bodies
PostExpensesWith(Bodies) ==
    \E header \in Headers, body \in Bodies :
        PostRoute(header, body) /\ UNCHANGED <<inflight, event>>

PostExpenses == PostExpensesWith(ExpenseBodies)

PostLooseExpenses == PostExpensesWith(LooseBodies)

\* The :id segments a client can send: the ObjectIds the server may have
\* handed out, and a string that is no ObjectId.
IdTexts == {ToString(i) : i \in 1..MaxTx} \cup {"not-an-id"}

IsObjectId(text) == \E i \in 1..MaxTx : ToString(i) = text

CastObjectId(text) == CHOOSE i \in 1..MaxTx : ToString(i) = text

\* Expense.findOneAndDelete({ _id: id, userId: req.user.id }) would remove
\* the caller's documents only; the handler passes no caller
findOwnByIdAndDelete(id) ==
    {e \in Expense : e._id = CastObjectId(id) /\ e.userId = req'.header.id}

\* Expense.findByIdAndDelete(id): the documents it removes
findByIdAndDelete(id) == {e \in Expense : e._id = CastObjectId(id)}

\* app.delete('/api/expenses/:id', authMiddleware, ...)
DeleteRoute(header, id) ==
        LET auth == authMiddleware(header)
        IN  /\ req' = Request("DELETE /api/expenses/:id", Empty, header, id)
            /\ IF ~auth.next
               THEN /\ res' = auth.res
                    /\ dbOps' = <<>>
                    /\ UNCHANGED Expense
               ELSE IF ~IsObjectId(id)
               THEN /\ res' \in Unhandled("Cast to ObjectId failed")
                    /\ dbOps' = <<Db("Expense.findByIdAndDelete", {})>>
                    /\ UNCHANGED Expense
               ELSE /\ Expense' = Expense \ findByIdAndDelete(id)
                    /\ res' = Json(200, [message |-> "Deleted"])
                    /\ dbOps' = <<Db("Expense.findByIdAndDelete", findByIdAndDelete(id))>>
            /\ UNCHANGED <<User, nextId, now, issued, registering, client>>

DeleteExpense ==
    \E header \in Headers, id \in IdTexts :
        DeleteRoute(header, id) /\ UNCHANGED <<inflight, event>>

\* time passes
Tick ==
    /\ now < MaxClock
    /\ now' = now + 1
    /\ UNCHANGED <<server, inflight, event, client>>

\* ---- the client: App's derived values ------------------------------------
\* JavaScript numbers ------------------------------------------------------
NaN == [nan |-> TRUE, v |-> 0]

Num(v) == [nan |-> FALSE, v |-> v]

Abs(x) == IF x < 0 THEN -x ELSE x

\* the distance between neighbouring numbers of magnitude a
RECURSIVE Ulp(_)
Ulp(a) == IF a < 2^Precision THEN 1 ELSE 2 * Ulp(a \div 2)

\* the number nearest to x, ties to the even significand
Round(x) ==
    LET a == Abs(x)
        u == Ulp(a)
        q == a \div u
        r == a % u
        m == IF 2 * r < u THEN q
             ELSE IF 2 * r > u THEN q + 1
             ELSE IF q % 2 = 0 THEN q ELSE q + 1
    IN  IF x < 0 THEN -(m * u) ELSE m * u

\* a + b and a - b
Add(a, b) == IF a.nan \/ b.nan THEN NaN ELSE Num(Round(a.v + b.v))

Sub(a, b) == IF a.nan \/ b.nan THEN NaN ELSE Num(Round(a.v - b.v))

\* a === b on numbers: NaN equals nothing
StrictEq(a, b) == ~a.nan /\ ~b.nan /\ a.v = b.v

\* Number(curr.amount): the amount of a document that has one, NaN for
\* undefined
NumberOfAmount(curr) == IF Has(curr, "amount") THEN Num(curr.amount) ELSE NaN

\* dates -------------------------------------------------------------------
HoursPerDay == 24
DaysPerYear == 365
DaysInMonth == <<31, 28, 31, 30, 31, 30, 31, 31, 30, 31, 30, 31>>

\* itemDate.getFullYear()
getFullYear(t) == (t \div HoursPerDay) \div DaysPerYear

\* the month, 0..11, of day d of a year, counting from month m that begins
\* at day first
RECURSIVE MonthFrom(_, _, _)
MonthFrom(d, m, first) ==
    IF d < first + DaysInMonth[m + 1] THEN m
    ELSE MonthFrom(d, m + 1, first + DaysInMonth[m + 1])

\* itemDate.getMonth()
getMonth(t) == MonthFrom((t \div HoursPerDay) % DaysPerYear, 0, 0)

\* itemDate.toDateString(): the calendar day
toDateString(t) == t \div HoursPerDay

\* the predicate, were monthly to compare the month alone
inTimeRangeAnyYear(item, range) ==
    IF range = "daily" THEN toDateString(item.date) = toDateString(now)
    ELSE IF range = "monthly" THEN getMonth(item.date) = getMonth(now)
    ELSE IF range = "yearly" THEN getFullYear(item.date) = getFullYear(now)
    ELSE TRUE

\* the predicate of expenses.filter in timeFilteredExpenses
inTimeRange(item, range) ==
    IF range = "daily" THEN toDateString(item.date) = toDateString(now)
    ELSE IF range = "monthly"
    THEN getMonth(item.date) = getMonth(now) /\ getFullYear(item.date) = getFullYear(now)
    ELSE IF range = "yearly" THEN getFullYear(item.date) = getFullYear(now)
    ELSE TRUE

\* expenses.filter(item => ...): the items kept, in their order
timeFilteredExpenses == SelectSeq(expenses, LAMBDA item : inTimeRange(item, timeRange))

\* the callback of the reduce in stats
statsStep(acc, curr) ==
    LET amt == NumberOfAmount(curr)
        type == IF Has(curr, "type") THEN curr.type ELSE "undefined"
    IN  CASE type = "income" ->
               [acc EXCEPT !.totalIncome = Add(@, amt), !.totalBalance = Add(@, amt)]
          [] type = "expense" ->
               [acc EXCEPT !.totalExpense = Add(@, amt), !.totalBalance = Sub(@, amt)]
          [] type = "investment" ->
               [acc EXCEPT !.totalInvested = Add(@, amt), !.totalBalance = Sub(@, amt)]
          [] type = "withdrawal" ->
               [acc EXCEPT !.totalWithdrawn = Add(@, amt), !.totalBalance = Add(@, amt)]
          [] OTHER -> acc

\* list.reduce(statsStep, acc): from the left
RECURSIVE reduce(_, _)
reduce(list, acc) ==
    IF list = <<>> THEN acc ELSE reduce(Tail(list), statsStep(acc, Head(list)))

statsZero ==
    [totalBalance |-> Num(0), totalIncome |-> Num(0), totalExpense |-> Num(0),
     totalInvested |-> Num(0), totalWithdrawn |-> Num(0)]

\* stats, computed from the list the category filter leaves
statsOfFilteredList ==
    reduce(IF filterCategory = "All" THEN timeFilteredExpenses
           ELSE SelectSeq(timeFilteredExpenses, LAMBDA e : e.category = filterCategory),
           statsZero)

stats == reduce(timeFilteredExpenses, statsZero)

\* the list displayed: the time-filtered list, narrowed to the selected
\* category unless that is "All"
filteredList ==
    IF filterCategory = "All" THEN timeFilteredExpenses
    ELSE SelectSeq(timeFilteredExpenses,
                   LAMBDA e : Has(e, "category") /\ e.category = filterCategory)

categories ==
    <<"Food", "Transport", "Housing", "Utilities", "Entertainment",
      "Healthcare", "Salary", "Stocks", "Crypto", "Savings">>

\* the options of the category select
FilterOptions == {"All"} \cup {categories[i] : i \in DOMAIN categories}

\* App is rendered (and its controls can be used) while a user is signed
\* in and no render has thrown
Rendered == appUser # Null /\ ~crashed

TimeRanges == {"daily", "monthly", "yearly", "all"}

\* the time-range tabs: setTimeRange(range)
SetTimeRange ==
    \E range \in TimeRanges :
        /\ Rendered
        /\ timeRange' = range
        /\ UNCHANGED <<server, now, inflight, event>>
        /\ UNCHANGED <<appUser, tracker_user, expenses, loading, filterCategory, crashed>>

\* The lists the aggregation is tried on: documents as the server answers
\* them for creates made through the client's form, of every type (and one
\* outside the four), dated today, earlier this month and last year.
Today == (DaysPerYear + 32) * HoursPerDay

StatTypes == {"income", "expense", "investment", "withdrawal", "transfer"}

StatAmounts == {2, 7}

StatDates == {Today, Today - HoursPerDay, 0}

\* the i-th document of a list, of type, amount and date tad
StatItem(i, tad) ==
    [_id |-> i, userId |-> 1, title |-> "Coffee", category |-> "Food",
     type |-> tad[1], amount |-> tad[2], date |-> tad[3]]

\* the list of the documents of types, amounts and dates tads
StatList(tads) == [i \in DOMAIN tads |-> StatItem(i, tads[i])]

\* the user of these lists: its record, and what the client holds of it
\* once signed in
StatUserDoc ==
    [_id |-> 1, name |-> "A", email |-> "a@x.com",
     password |-> hashedPassword("p", "s1")]

StatUser ==
    [id |-> 1, name |-> "A", email |-> "a@x.com",
     token |-> Jwt(1, Today + ExpiresIn, JWT_SECRET)]

\* the category select: setFilterCategory(e.target.value)
SetFilterCategory ==
    \E category \in FilterOptions :
        /\ Rendered
        /\ filterCategory' = category
        /\ UNCHANGED <<server, now, inflight, event>>
        /\ UNCHANGED <<appUser, tracker_user, expenses, loading, timeRange, crashed>>

\* The lists the time-range filter is tried on: documents dated (the clock
\* being at one o'clock today) at midnight today, an hour before it, on the
\* first day of this year, a year ago to the day, and at the epoch.
FilterNow == Today + 1

FilterDates ==
    {Today, Today - 1, DaysPerYear * HoursPerDay, Today - DaysPerYear * HoursPerDay, 0}

\* The lists the category filter is tried on: documents of two categories,
\* dated today and at the epoch.
FilterCategories == {"Food", "Salary"}

CategoryDates == {Today, 0}

\* the i-th document of a list, of category and date cd
FilterItem(i, cd) ==
    [_id |-> i, userId |-> 1, title |-> "Coffee", type |-> "expense",
     amount |-> 2, category |-> cd[1], date |-> cd[2]]

FilterList(cds) == [i \in DOMAIN cds |-> FilterItem(i, cds[i])]

\* ---- the client: its calls and their outcomes -----------------------------
\* realApi.getHeaders(): the Authorization header, from the stored entry
getHeaders(stored) == IF stored = Null THEN NoHeader ELSE stored.token

\* a call of that name is in flight
Calling(name) == \E i \in DOMAIN inflight : inflight[i].call = name

\* seq without its i-th element
Remove(seq, i) == SubSeq(seq, 1, i - 1) \o SubSeq(seq, i + 1, Len(seq))

\* AuthScreen.handleSubmit in its login flow, up to its await: shown while
\* no user is signed in, its button disabled while a submit is pending
SubmitLogin ==
    \E email \in Emails, password \in Passwords :
        /\ appUser = Null /\ ~crashed
        /\ ~Calling("login")
        /\ Len(inflight) < MaxInflight
        /\ inflight' = Append(inflight,
               Call("login", NoHeader, [email |-> email, password |-> password], ""))
        /\ event' = Event("login", NoCall)
        /\ UNCHANGED <<server, now, client>>

\* App.handleSubmit up to its await, the form filled in
handleSubmit ==
    /\ Rendered
    /\ Len(inflight) < MaxInflight
    /\ nextId + Cardinality({i \in DOMAIN inflight :
            inflight[i].call = "add" /\ inflight[i].stage = "sent"}) <= MaxTx
    /\ Len(expenses) + Cardinality({i \in DOMAIN inflight :
            inflight[i].call = "add"}) < MaxLen
    /\ inflight' = Append(inflight, Call("add", getHeaders(tracker_user), FormBody, ""))
    /\ event' = Event("add", NoCall)
    /\ UNCHANGED <<server, now, client>>

\* App.handleDelete up to its await, the confirm accepted: on an item of
\* the list, which is shown once loading is over (every date in play falls
\* in the current month)
handleDelete ==
    \E i \in DOMAIN expenses :
        /\ Rendered /\ ~loading
        /\ Len(inflight) < MaxInflight
        /\ Has(expenses[i], "_id")
        /\ inflight' = Append(inflight,
               Call("delete", getHeaders(tracker_user), Empty, ToString(expenses[i]._id)))
        /\ event' = Event("delete", NoCall)
        /\ UNCHANGED <<server, now, client>>

\* handleLogout, with removeItem forgotten
logoutKeepingEntry == tracker_user

\* handleLogout: what it leaves in localStorage
logoutEntry == Null

\* App.handleLogout
handleLogout ==
    /\ Rendered
    /\ appUser' = Null
    /\ tracker_user' = logoutEntry
    /\ event' = Event("logout", NoCall)
    /\ UNCHANGED <<server, now, inflight>>
    /\ UNCHANGED <<expenses, loading, timeRange, filterCategory, crashed>>

\* The page is loaded again: App mounts with its initial state, the first
\* effect restores the user from localStorage and the second calls
\* loadData for it. The pending calls of the page before are gone.
Reload ==
    /\ appUser' = tracker_user
    /\ expenses' = <<>>
    /\ loading' = TRUE
    /\ timeRange' = "monthly"
    /\ filterCategory' = "All"
    /\ crashed' = FALSE
    /\ inflight' = IF tracker_user = Null THEN <<>>
                   ELSE <<Call("fetch", getHeaders(tracker_user), Empty, "")>>
    /\ event' = Event("reload", NoCall)
    /\ UNCHANGED <<server, now, tracker_user>>

\* the server receives the i-th call and answers it
Serve(i) ==
    LET c == inflight[i]
    IN  /\ c.stage = "sent"
        /\ \/ c.call = "login" /\ LoginRoute(c.body)
           \/ c.call = "fetch" /\ GetRoute(c.header)
           \/ c.call = "add" /\ PostRoute(c.header, c.body)
           \/ c.call = "delete" /\ DeleteRoute(c.header, c.id)
        /\ inflight' = [inflight EXCEPT ![i].stage = "served", ![i].res = res']
        /\ event' = Event("serve", NoCall)

Served == \E i \in DOMAIN inflight : Serve(i)

\* the network fails the i-th call, before or after the server answered:
\* its fetch() rejects
NetworkFails ==
    \E i \in DOMAIN inflight :
        /\ inflight[i].stage \in {"sent", "served"}
        /\ inflight' = [inflight EXCEPT ![i].stage = "failed"]
        /\ event' = Event("network", NoCall)
        /\ UNCHANGED <<server, now, client>>

\* res.ok
Ok(c) == c.stage = "served" /\ c.res.status \in 200..299

\* the promise of the call has settled: fetch() rejected, or the response
\* has arrived
Settled(c) == c.stage = "failed" \/ (c.stage = "served" /\ c.res.status # 0)

\* { ...data.user, token: data.token }
userData(data) == Spread(data.user, [token |-> data.token])

\* AuthScreen.handleSubmit after its await: an alert on a failure; else
\* onLogin, that is handleLogin (setUser and setItem), and the effect on
\* user, which calls loadData. Of an App that is unmounted only setItem
\* takes effect.
LoginSettles(i) ==
    LET c == inflight[i]
        rest == Remove(inflight, i)
    IN  /\ c.call = "login"
        /\ IF ~Ok(c)
           THEN inflight' = rest /\ UNCHANGED client
           ELSE /\ tracker_user' = userData(c.res.json)
                /\ IF crashed
                   THEN /\ inflight' = rest
                        /\ UNCHANGED <<appUser, expenses, loading, timeRange,
                                       filterCategory, crashed>>
                   ELSE /\ appUser' = userData(c.res.json)
                        /\ loading' = TRUE
                        /\ inflight' = Append(rest,
                               Call("fetch", getHeaders(userData(c.res.json)), Empty, ""))
                        /\ UNCHANGED <<expenses, timeRange, filterCategory, crashed>>

\* loadData after its await: the value it hands to setExpenses
loaded(c) == c.res.json

\* loadData after its await: setExpenses(data) with whatever body the
\* response carries, nothing in the catch, setLoading(false) in the finally.
\* A list that is no array makes the next render throw.
FetchSettles(i) ==
    LET c == inflight[i]
    IN  /\ c.call = "fetch"
        /\ inflight' = Remove(inflight, i)
        /\ IF crashed THEN UNCHANGED client
           ELSE IF c.stage = "failed"
           THEN /\ loading' = FALSE
                /\ UNCHANGED <<appUser, tracker_user, expenses, timeRange,
                               filterCategory, crashed>>
           ELSE /\ expenses' = loaded(c)
                /\ crashed' = ~Ok(c)
                /\ loading' = FALSE
                /\ UNCHANGED <<appUser, tracker_user, timeRange, filterCategory>>

\* handleSubmit after its await: setExpenses(prev => [newExp, ...prev])
\* with whatever body the response carries; nothing in the catch
AddSettles(i) ==
    LET c == inflight[i]
    IN  /\ c.call = "add"
        /\ inflight' = Remove(inflight, i)
        /\ IF crashed \/ c.stage = "failed" THEN UNCHANGED client
           ELSE /\ expenses' = <<c.res.json>> \o expenses
                /\ UNCHANGED <<appUser, tracker_user, loading, timeRange,
                               filterCategory, crashed>>

\* handleDelete after its await: deleteExpense returns the id whatever the
\* response, and setExpenses(prev => prev.filter(e => e._id !== id))
DeleteSettles(i) ==
    LET c == inflight[i]
    IN  /\ c.call = "delete"
        /\ inflight' = Remove(inflight, i)
        /\ IF crashed \/ c.stage = "failed" THEN UNCHANGED client
           ELSE /\ expenses' = SelectSeq(expenses,
                       LAMBDA e : ~(Has(e, "_id") /\ ToString(e._id) = c.id))
                /\ UNCHANGED <<appUser, tracker_user, loading, timeRange,
                               filterCategory, crashed>>

\* the continuation of a settled call runs
Settle ==
    \E i \in DOMAIN inflight :
        /\ Settled(inflight[i])
        /\ event' = Event("settle", inflight[i])
        /\ UNCHANGED <<server, now>>
        /\ \/ LoginSettles(i)
           \/ FetchSettles(i)
           \/ AddSettles(i)
           \/ DeleteSettles(i)

\* the users of the client
ClientUsers ==
    {StatUserDoc,
     [_id |-> 2, name |-> "A", email |-> "b@x.com",
      password |-> hashedPassword("p", "s1")]}

Init ==
    /\ User = {}
    /\ Expense = {}
    /\ nextId = 1
    /\ now = 0
    /\ issued = {}
    /\ req = Request("", Empty, NoHeader, "")
    /\ res = NoResponse
    /\ dbOps = <<>>
    /\ registering = <<>>
    /\ inflight = <<>>
    /\ event = Event("", NoCall)
    /\ appUser = Null
    /\ tracker_user = Null
    /\ expenses = <<>>
    /\ loading = TRUE
    /\ timeRange = "monthly"
    /\ filterCategory = "All"
    /\ crashed = FALSE

Next ==
    \/ Register
    \/ Login
    \/ GetExpenses
    \/ PostExpenses
    \/ DeleteExpense
    \/ Tick

Spec == Init /\ [][Next]_vars

\* the same API, called with bodies that leave out or garble title and amount
NextLoose ==
    \/ Register
    \/ Login
    \/ GetExpenses
    \/ PostLooseExpenses
    \/ DeleteExpense
    \/ Tick

SpecLoose == Init /\ [][NextLoose]_vars

\* the client's aggregation, on every list of at most MaxLen documents
InitStats ==
    /\ User = {StatUserDoc}
    /\ Expense = {}
    /\ nextId = 1
    /\ now = Today
    /\ issued = {}
    /\ req = Request("", Empty, NoHeader, "")
    /\ res = NoResponse
    /\ dbOps = <<>>
    /\ \E n \in 0..MaxLen :
          \E tads \in [1..n -> StatTypes \X StatAmounts \X StatDates] :
              expenses = StatList(tads)
    /\ timeRange = "monthly"
    /\ registering = <<>>
    /\ inflight = <<>>
    /\ event = Event("", NoCall)
    /\ appUser = StatUser
    /\ tracker_user = StatUser
    /\ loading = FALSE
    /\ filterCategory = "All"
    /\ crashed = FALSE

NextStats == SetTimeRange

SpecStats == InitStats /\ [][NextStats]_vars

\* the register route under concurrent requests
NextRace ==
    \/ RegisterFindOne
    \/ RegisterSave
    \/ Login
    \/ Tick

SpecRace == Init /\ [][NextRace]_vars

\* one browser and the server, the users of Registered having registered
InitClientWith(Registered) ==
    /\ User = Registered
    /\ Expense = {}
    /\ nextId = 1
    /\ now = 0
    /\ issued = {}
    /\ req = Request("", Empty, NoHeader, "")
    /\ res = NoResponse
    /\ dbOps = <<>>
    /\ registering = <<>>
    /\ inflight = <<>>
    /\ event = Event("", NoCall)
    /\ appUser = Null
    /\ tracker_user = Null
    /\ expenses = <<>>
    /\ loading = TRUE
    /\ timeRange = "monthly"
    /\ filterCategory = "All"
    /\ crashed = FALSE

\* one user has registered: a login for the other email is refused
InitClient == InitClientWith({StatUserDoc})

\* the user waits for the outcome of a call before making the next
OneAtATime ==
    /\ inflight = <<>>
    /\ \/ SubmitLogin
       \/ handleSubmit
       \/ handleDelete

\* a browser whose user makes one call at a time, over a network that may
\* fail, while time passes and tokens expire
NextClient ==
    \/ OneAtATime
    \/ handleLogout
    \/ Reload
    \/ Served
    \/ NetworkFails
    \/ Settle
    \/ Tick

SpecClient == InitClient /\ [][NextClient]_vars

\* a browser whose users make calls while others are pending, the network
\* never failing and no token expiring: every call completes successfully
NextOrderly ==
    \/ SubmitLogin
    \/ handleSubmit
    \/ handleDelete
    \/ handleLogout
    \/ Reload
    \/ Served
    \/ Settle

\* both users have registered
InitOrderly == InitClientWith(ClientUsers)

SpecOrderly == InitOrderly /\ [][NextOrderly]_vars

\* a signed-in client holding a list of at most MaxLen documents of the
\* categories Categories and the dates Dates, the clock being at clock
InitWith(clock, Categories, Dates) ==
    /\ User = {StatUserDoc}
    /\ Expense = {}
    /\ nextId = 1
    /\ now = clock
    /\ issued = {}
    /\ req = Request("", Empty, NoHeader, "")
    /\ res = NoResponse
    /\ dbOps = <<>>
    /\ registering = <<>>
    /\ inflight = <<>>
    /\ event = Event("", NoCall)
    /\ appUser = StatUser
    /\ tracker_user = StatUser
    /\ loading = FALSE
    /\ \E n \in 0..MaxLen :
          \E cds \in [1..n -> Categories \X Dates] :
              expenses = FilterList(cds)
    /\ timeRange = "monthly"
    /\ filterCategory = "All"
    /\ crashed = FALSE

\* the time-range filter, on lists of every mix of dates
InitFilter == InitWith(FilterNow, {"Food"}, FilterDates)

NextFilter == SetTimeRange

SpecFilter == InitFilter /\ [][NextFilter]_vars

\* the category filter, on lists of every mix of categories
InitCategory == InitWith(Today, FilterCategories, CategoryDates)

NextCategory ==
    \/ SetTimeRange
    \/ SetFilterCategory

SpecCategory == InitCategory /\ [][NextCategory]_vars

\* ---- vocabulary of the properties ---------------------------------------
GET == "GET /api/expenses"
POST == "POST /api/expenses"
DELETE == "DELETE /api/expenses/:id"
REGISTER == "POST /api/auth/register"
LOGIN == "POST /api/auth/login"

Protected == {GET, POST, DELETE}

\* the error outcomes, by the message the server answers with
MissingToken == [error |-> "Access Denied"]
InvalidToken == [error |-> "Invalid Token"]
DuplicateEmail == [error |-> "User already exists"]
NotFound == [error |-> "User not found"]
InvalidCredentials == [error |-> "Invalid credentials"]

\* the elements of a JSON array
Elems(seq) == {seq[i] : i \in DOMAIN seq}

\* ---- C1 -----------------------------------------------------------------
\* C1: whatever registers, logins, creates and deletes came before, a list
\* answered to a caller holds exactly the stored transactions whose owner is
\* the caller (the id of the caller's token): none of another user, none of
\* the caller's missing.
ListIsExactlyTheCallers ==
    (req.route = GET /\ res.status = 200) =>
        /\ \A e \in Elems(res.json) : e \in Expense /\ e.userId = req.header.id
        /\ \A e \in Expense : e.userId = req.header.id => e \in Elems(res.json)

\* a list was answered to a caller who owns a transaction while another
\* user's transaction is stored too
ListedBesideForeign ==
    /\ req.route = GET /\ res.status = 200
    /\ Elems(res.json) # {}
    /\ \E e \in Expense : e.userId # req.header.id

\* ---- C2 -----------------------------------------------------------------
\* C2: every transaction that enters the collection does so by a create
\* request carrying a token login issued, and its owner is the id of that
\* token, whatever userId the request body carries; the response shows the
\* same owner.
OwnerIsTokenId ==
    [][\A e \in Expense' \ Expense :
          /\ req'.route = POST
          /\ req'.header \in issued
          /\ e.userId = req'.header.id
          /\ res' = Json(200, e)]_vars

\* a create whose body named another user as owner was stored
SpoofedOwnerStored ==
    /\ req.route = POST /\ res.status = 200
    /\ Has(req.body, "userId") /\ req.body.userId # req.header.id
    /\ res.json \in Expense

\* ---- C3 -----------------------------------------------------------------
\* the token of a request verifies at the time of the request
Authentic(header) ==
    /\ header.kind = "jwt"
    /\ header.key = JWT_SECRET
    /\ header.exp > now

\* C3: on each of the three expense routes, a request without a token is
\* answered MissingToken, a request whose token is no JWT, is signed with
\* another key or has reached its expiry (one hour after it was issued) is
\* answered InvalidToken, and in both cases no collection operation runs and
\* the collection stays as it is.
GateBeforeExpenseRoutes ==
    [][(now' = now /\ req'.route \in Protected /\ ~Authentic(req'.header)) =>
          /\ res'.json = IF req'.header.kind = "none" THEN MissingToken ELSE InvalidToken
          /\ res'.status \in {400, 401}
          /\ dbOps' = <<>>
          /\ Expense' = Expense]_vars

\* a token login issued was refused, as expired, on the create route
ExpiredTokenRefused ==
    /\ req.route = POST
    /\ req.header \in issued /\ req.header.exp <= now
    /\ res.json = InvalidToken

\* ---- C4 -----------------------------------------------------------------
\* a step that serves a register request
RegisterStep == now' = now /\ req'.route = REGISTER

\* the email of the request is already some user's
Taken(email) == \E u \in User : u.email = email

\* from User to User': exactly one record was added, for this body, holding
\* a hash of the password and not the password
AddsOneHashed(body) ==
    \E u \in User' \ User :
        /\ User' = User \cup {u}
        /\ u.email = body.email
        /\ Has(body, "password")
        /\ u.password # body.password
        /\ BcryptCompare(body.password, u.password)

Complete(body) == Has(body, "name") /\ body.name # "" /\ Has(body, "password")

LoginAsStated ==
    [][(now' = now /\ req'.route = LOGIN) =>
          /\ User' = User /\ Expense' = Expense
          /\ IF ~Taken(req'.body.email)
             THEN res' = Json(400, NotFound)
             ELSE \A u \in User : u.email = req'.body.email =>
                    IF Has(req'.body, "password")
                           /\ BcryptCompare(req'.body.password, u.password)
                    THEN res' = Json(200,
                            [token |-> Jwt(u._id, now + ExpiresIn, JWT_SECRET),
                             user |-> [id |-> u._id, name |-> u.name, email |-> u.email]])
                    ELSE res' = Json(400, InvalidCredentials)]_vars

\* ---- C6 -----------------------------------------------------------------
\* C6: a create that succeeds answers with a document whose _id is fresh
\* and, when the body carries no date, whose date is the server's clock; and
\* a list answered to the same caller right after it contains that document,
\* placed before every document with an older date, the whole list being in
\* descending order of date.
CreateThenList ==
    [][/\ (now' = now /\ req'.route = POST /\ res'.status = 200) =>
             /\ res'.json._id \notin {e._id : e \in Expense}
             /\ ~Has(req'.body, "_id")
             /\ ~Has(req'.body, "date") => res'.json.date = now
       /\ (/\ req.route = POST /\ res.status = 200
           /\ req'.route = GET /\ res'.status = 200
           /\ req'.header.id = req.header.id) =>
             /\ \E i \in DOMAIN res'.json :
                   /\ res'.json[i] = res.json
                   /\ \A j \in DOMAIN res'.json :
                         res'.json[j].date < res.json.date => i < j
             /\ \A i, j \in DOMAIN res'.json :
                   i < j => res'.json[i].date >= res'.json[j].date]_vars

\* the latest document created is listed first, before an older one
NewestListedFirst ==
    /\ req.route = GET /\ res.status = 200
    /\ Len(res.json) >= 2
    /\ res.json[1]._id = nextId - 1
    /\ res.json[1].date > res.json[2].date

\* ---- C7 -----------------------------------------------------------------
\* C7: a create that passed the gate with a body lacking the title or the
\* amount, or with an amount that is no number, is answered ValidationError
\* (400) and stores nothing.
CreateValidates ==
    (/\ req.route = POST /\ dbOps # <<>>
     /\ \/ ~Has(req.body, "title")
        \/ ~Has(req.body, "amount")
        \/ ~IsNumeric(req.body.amount)) =>
        /\ res.status = 400
        /\ dbOps[1].docs = {}

\* ---- C8 -----------------------------------------------------------------
\* C8: an authenticated delete of any id, stored or not, is answered 200
\* {message}; it removes the transaction of that id and nothing else, so a
\* second delete of the same id changes nothing.
DeleteIdempotent ==
    [][(now' = now /\ req'.route = DELETE /\ Authentic(req'.header)) =>
          /\ res' = Json(200, [message |-> "Deleted"])
          /\ Expense' \subseteq Expense
          /\ \A e \in Expense \ Expense' : ToString(e._id) = req'.id
          /\ \A e \in Expense' : ToString(e._id) # req'.id]_vars

\* ---- C9 -----------------------------------------------------------------
\* C9: a delete that is answered 200 has removed the transaction of the
\* id it names whoever owns it: the handler compares no owner with the
\* caller. (That a caller does delete another user's transaction, which
\* then no list shows its owner, is the witness.)
DeleteChecksNoOwner ==
    [][(now' = now /\ req'.route = DELETE /\ res'.status = 200) =>
          /\ \A e \in Expense : ToString(e._id) = req'.id => e \notin Expense'
          /\ \A e \in Expense' : ToString(e._id) # req'.id]_vars

\* a caller has deleted a transaction owned by another user, and the
\* owner's list no longer holds it
DeletedAnothersTransaction ==
    /\ req.route = DELETE /\ res.status = 200
    /\ \E e \in dbOps[1].docs :
          /\ e.userId # req.header.id
          /\ \A s \in sortDateDesc(find(e.userId)) : e \notin Elems(s)

\* ---- C10 ----------------------------------------------------------------
\* C10: for every list and every time range, totalBalance is totalIncome +
\* totalWithdrawn - totalExpense - totalInvested; the empty list gives 0 for
\* every aggregate, and the transactions whose type is none of the four
\* add nothing to any of them.
BalanceIdentity ==
    /\ StrictEq(stats.totalBalance,
                Sub(Sub(Add(stats.totalIncome, stats.totalWithdrawn),
                        stats.totalExpense),
                    stats.totalInvested))
    /\ timeFilteredExpenses = <<>> => stats = statsZero
    /\ stats = reduce(SelectSeq(timeFilteredExpenses,
                                LAMBDA item : item.type \in
                                    {"income", "expense", "investment", "withdrawal"}),
                      statsZero)

\* ---- C11 ----------------------------------------------------------------
\* the items of list whose category is category, in their order
OfCategory(list, category) ==
    SelectSeq(list, LAMBDA e : e.category = category)

\* the displayed list is what the claim says of it
FilteredListAsStated ==
    /\ filterCategory = "All" => filteredList = timeFilteredExpenses
    /\ filterCategory # "All" =>
          filteredList = OfCategory(timeFilteredExpenses, filterCategory)

\* C11: under the category filter "All" the displayed list is the
\* time-filtered list; under any other value it is the time-filtered
\* transactions of that category, in the same order; and selecting a
\* category changes no aggregate total.
CategoryFilterFrame ==
    [][/\ FilteredListAsStated
       /\ filterCategory' # filterCategory => stats' = stats]_vars

\* a category is selected that narrows the displayed list, while the
\* totals count the transactions it hides
CategoryNarrowsList ==
    /\ filterCategory # "All"
    /\ filteredList # <<>>
    /\ Len(filteredList) < Len(timeFilteredExpenses)
    /\ stats.totalExpense = Num(2 * Len(timeFilteredExpenses))

\* ---- C12 ----------------------------------------------------------------
\* the calendar, by the first hour of each year and month
YearStart(y) == y * DaysPerYear * HoursPerDay

RECURSIVE DaysBefore(_)
DaysBefore(m) == IF m = 0 THEN 0 ELSE DaysBefore(m - 1) + DaysInMonth[m]

MonthStart(y, m) == YearStart(y) + DaysBefore(m) * HoursPerDay

\* the year and the month (0..11) the hour t falls in
YearOf(t) == CHOOSE y \in 0..(t \div HoursPerDay) : YearStart(y) <= t /\ t < YearStart(y + 1)

MonthOf(t) ==
    CHOOSE m \in 0..11 :
        /\ MonthStart(YearOf(t), m) <= t
        /\ t < MonthStart(YearOf(t), m) + DaysInMonth[m + 1] * HoursPerDay

DayStart(t) == t - (t % HoursPerDay)

\* the date t matches range, evaluated against now
Matches(t, range) ==
    CASE range = "all" -> TRUE
      [] range = "yearly" -> YearStart(YearOf(now)) <= t /\ t < YearStart(YearOf(now) + 1)
      [] range = "monthly" ->
            /\ MonthStart(YearOf(now), MonthOf(now)) <= t
            /\ t < MonthStart(YearOf(now), MonthOf(now))
                      + DaysInMonth[MonthOf(now) + 1] * HoursPerDay
      [] range = "daily" -> DayStart(now) <= t /\ t < DayStart(now) + HoursPerDay

\* what the filter keeps under range
KeptUnder(range) == SelectSeq(expenses, LAMBDA item : inTimeRange(item, range))

\* C12: the time-range filter keeps, in their order, exactly the
\* transactions whose date matches the selected range evaluated against
\* now: every one under all, those of the current year under yearly, those
\* of the current month of the current year under monthly, those of today
\* under daily; so daily is within monthly, monthly within yearly and
\* yearly within all.
TimeFilterExact ==
    /\ timeFilteredExpenses =
          SelectSeq(expenses, LAMBDA item : Matches(item.date, timeRange))
    /\ KeptUnder("all") = expenses
    /\ Elems(KeptUnder("daily")) \subseteq Elems(KeptUnder("monthly"))
    /\ Elems(KeptUnder("monthly")) \subseteq Elems(KeptUnder("yearly"))
    /\ Elems(KeptUnder("yearly")) \subseteq Elems(KeptUnder("all"))

\* daily is selected; the four ranges keep four lists of different
\* lengths, and daily drops a transaction made two hours ago, yesterday
RangesDiffer ==
    /\ timeRange = "daily"
    /\ Len(KeptUnder("daily")) < Len(KeptUnder("monthly"))
    /\ Len(KeptUnder("monthly")) < Len(KeptUnder("yearly"))
    /\ Len(KeptUnder("yearly")) < Len(KeptUnder("all"))
    /\ \E i \in DOMAIN expenses :
          /\ expenses[i].date = now - 2
          /\ expenses[i] \notin Elems(timeFilteredExpenses)

\* ---- C13 ----------------------------------------------------------------
\* a step that serves a request to an expense route whose token is missing,
\* invalid or expired
RefusedStep == now' = now /\ req'.route \in Protected /\ ~Authentic(req'.header)

\* C13 as stated: every request to an expense route whose token is
\* missing, invalid or expired is answered with status 401.
RefusedWith401 ==
    [][RefusedStep => res'.status = 401]_vars

\* C13, amended: a request to an expense route without a token is answered
\* 401 (Access Denied); one whose token is invalid or expired is answered
\* 400 (Invalid Token).
RefusedWith401Or400 ==
    [][RefusedStep =>
          res' = IF req'.header.kind = "none" THEN Json(401, MissingToken)
                 ELSE Json(400, InvalidToken)]_vars

\* a delete carrying a string that is no token was answered 400
GarbageAnswered400 ==
    /\ req.route = DELETE
    /\ req.header = Garbage
    /\ res = Json(400, InvalidToken)

\* ---- C14 ----------------------------------------------------------------
\* this step runs the continuation of a call of that name
Settles(name) == now' = now /\ event'.name = "settle" /\ event'.call.call = name

\* C14: when a fetch of the list or a delete fails, by a failure of the
\* network or by an error response of the server, the client's list is
\* after the call what it was before it.
FailedCallsLeaveList ==
    [][((Settles("fetch") \/ Settles("delete")) /\ ~Ok(event'.call)) =>
          /\ crashed' = crashed
          /\ expenses' = expenses]_vars

\* ---- C15 ----------------------------------------------------------------
\* this step is the client doing the thing of that name
Does(name) == now' = now /\ event'.name = name

\* the call this step makes, if it makes one
Makes(c) ==
    /\ now' = now
    /\ \/ event'.name \in {"login", "add", "delete"}
       \/ event'.name = "reload"
       \/ Settles("login") /\ Ok(event'.call) /\ ~crashed
    /\ inflight' # <<>>
    /\ c = inflight'[Len(inflight')]

\* C15: the in-memory user is the persisted entry whenever App is up; a
\* login that succeeds sets both to the profile and the token of the
\* response; a reload restores the user from the entry and leaves the
\* entry; no step but handleLogout changes an entry that is set;
\* handleLogout leaves both absent; and every call to an expense route
\* carries the token of the entry, none when there is no entry.
SessionLifecycle ==
    [][/\ crashed \/ appUser = tracker_user
       /\ crashed' \/ appUser' = tracker_user'
       /\ (Settles("login") /\ Ok(event'.call)) =>
             /\ tracker_user' = [id |-> event'.call.res.json.user.id,
                                 name |-> event'.call.res.json.user.name,
                                 email |-> event'.call.res.json.user.email,
                                 token |-> event'.call.res.json.token]
             /\ tracker_user'.email = event'.call.body.email
       /\ Does("reload") => appUser' = tracker_user /\ tracker_user' = tracker_user
       /\ (tracker_user # Null /\ ~Does("logout")) => tracker_user' = tracker_user
       /\ Does("logout") => appUser' = Null /\ tracker_user' = Null
       /\ \A c \in {inflight'[i] : i \in DOMAIN inflight'} :
             (Makes(c) /\ c.call # "login") =>
                 /\ tracker_user' # Null
                 /\ c.header = tracker_user'.token]_vars

\* a reload has restored the session of a login, and its fetch carries the
\* token
SessionRestored ==
    /\ event.name = "reload"
    /\ appUser # Null /\ appUser = tracker_user
    /\ inflight = <<Call("fetch", appUser.token, Empty, "")>>
    /\ appUser.token \in issued

\* ---- C16 ----------------------------------------------------------------
\* C16: whenever a user is signed in, every transaction of the client's
\* list is owned by that user.
OnlyOwnTransactions ==
    Rendered =>
        \A i \in DOMAIN expenses :
            Has(expenses[i], "userId") => expenses[i].userId = appUser.id

\* ---- C17 ----------------------------------------------------------------
\* C17: once every call has completed, each of them successfully, the
\* client's list is what the server lists for the signed-in user: the same
\* transactions, in descending order of date.
SettledListIsServers ==
    (Rendered /\ inflight = <<>>) => expenses \in sortDateDesc(find(appUser.id))

\* ---- C18 ----------------------------------------------------------------
\* no two users hold the same email
EmailsUnique == \A u, v \in User : u.email = v.email => u = v

\* this step answers a register request
RegisterAnswered ==
    now' = now /\ req'.route = REGISTER /\ Len(registering') <= Len(registering)

\* C18: however register requests interleave, no two User records hold the
\* same email, and a register request whose email is held by the record of
\* another request is answered DuplicateEmail (400), not success and not a
\* server error.
ConcurrentRegisterAsStated ==
    [][/\ EmailsUnique /\ EmailsUnique'
       /\ (RegisterAnswered /\ Taken(req'.body.email)) =>
             /\ res' = Json(400, DuplicateEmail)
             /\ User' = User]_vars

====
